---- MODULE Spec2Model ----
(***************************************************************************)
(* The protoc plugin of betterproto (src/betterproto/plugin.py): main()    *)
(* reads a CodeGeneratorRequest, generate_code() groups its files into     *)
(* output units, flattens and compiles every message, enum and service of  *)
(* each unit, and main() writes the response.                               *)
(*                                                                         *)
(* Python text is a sequence of one-character strings, so that lstrip,     *)
(* startswith, replace, split, lower and sorted are computed character by  *)
(* character as Python computes them.                                      *)
(***************************************************************************)
EXTENDS Integers, Sequences, FiniteSets, TLC

VARIABLES
    data,        \* main: the request as read from stdin (never changed)
    request,     \* main: the parsed request; traverse() renames its declarations in place
    pc,          \* position in main() / generate_code()
    output_map,  \* generate_code: out -> {"package", "files"}, in insertion order
    n,           \* number of files the grouping loop (line 141) has consumed
    u,           \* index in output_map of the unit the loop at line 153 is in
    fi,          \* index in the unit's files of the file the loop at line 168 is in
    gen,         \* number of items the generator traverse(proto_file) has yielded
    si,          \* number of services of the file the loop at line 281 has consumed
    item,        \* loop variable of line 173: the declaration last yielded, [file, decl]
    path,        \* loop variable of line 173: the path last yielded
    output,      \* the dict `output` of the unit being compiled
    response,    \* response.file
    inits,       \* the part of the set `inits` the loop at line 352 has not visited
    dirs,        \* directories os.makedirs has created
    stdout       \* what has been written to sys.stdout.buffer

vars == <<data, request, pc, output_map, n, u, fi, gen, si, item, path, output,
          response, inits, dirs, stdout>>

-----------------------------------------------------------------------------
(* Bounds of the inputs.                                                   *)

MaxDecls == 3

MaxMethods == 2

MaxFiles == 2

-----------------------------------------------------------------------------
(* Python str operations.                                                  *)

\* The characters in use, in code point order.
Alphabet ==
    << " ", "\"", ",", ".", "/", "0", "1", "2", "3", "4", "5", "6", "7", "8", "9",
       "A", "B", "C", "D", "E", "F", "G", "H", "I", "J", "K", "L", "M", "N", "O",
       "P", "Q", "R", "S", "T", "U", "V", "W", "X", "Y", "Z", "[", "]", "_",
       "a", "b", "c", "d", "e", "f", "g", "h", "i", "j", "k", "l", "m", "n", "o",
       "p", "q", "r", "s", "t", "u", "v", "w", "x", "y", "z" >>

Ord(c) == CHOOSE i \in 1..Len(Alphabet) : Alphabet[i] = c

Upper == <<"A", "B", "C", "D", "E", "F", "G", "H", "I", "J", "K", "L", "M",
           "N", "O", "P", "Q", "R", "S", "T", "U", "V", "W", "X", "Y", "Z">>

LowerCase == <<"a", "b", "c", "d", "e", "f", "g", "h", "i", "j", "k", "l", "m",
               "n", "o", "p", "q", "r", "s", "t", "u", "v", "w", "x", "y", "z">>

LowerChar(c) ==
    IF \E i \in 1..Len(Upper) : Upper[i] = c
    THEN LowerCase[CHOOSE i \in 1..Len(Upper) : Upper[i] = c]
    ELSE c

\* s.lower()
Lower(s) == [i \in 1..Len(s) |-> LowerChar(s[i])]

CharsOf(s) == {s[i] : i \in 1..Len(s)}

\* s.startswith(p)
StartsWith(s, p) == Len(p) <= Len(s) /\ SubSeq(s, 1, Len(p)) = p

\* s.lstrip(chars): drops leading characters while they are among chars
LStrip(s, chars) ==
    LET keep == {i \in 1..Len(s) : s[i] \notin CharsOf(chars)}
    IN IF keep = {} THEN <<>>
       ELSE SubSeq(s, CHOOSE i \in keep : \A j \in keep : i <= j, Len(s))

\* s.rstrip(chars)
RStrip(s, chars) ==
    LET keep == {i \in 1..Len(s) : s[i] \notin CharsOf(chars)}
    IN IF keep = {} THEN <<>>
       ELSE SubSeq(s, 1, CHOOSE i \in keep : \A j \in keep : j <= i)

\* s.strip(chars)
Strip(s, chars) == RStrip(LStrip(s, chars), chars)

\* s.replace(c, r) for a one-character c
RECURSIVE Replace(_, _, _)
Replace(s, c, r) ==
    IF s = <<>> THEN <<>>
    ELSE (IF Head(s) = c THEN r ELSE <<Head(s)>>) \o Replace(Tail(s), c, r)

\* c in s
Contains(s, c) == c \in CharsOf(s)

\* s.split(c)
RECURSIVE Split(_, _)
Split(s, c) ==
    IF ~Contains(s, c) THEN <<s>>
    ELSE LET k == CHOOSE i \in 1..Len(s) : s[i] = c /\ \A j \in 1..(i - 1) : s[j] # c
         IN <<SubSeq(s, 1, k - 1)>> \o Split(SubSeq(s, k + 1, Len(s)), c)

\* sep.join(parts)
RECURSIVE Join(_, _)
Join(parts, sep) ==
    IF parts = <<>> THEN <<>>
    ELSE IF Len(parts) = 1 THEN parts[1]
    ELSE parts[1] \o sep \o Join(Tail(parts), sep)

\* s < t as Python compares str
RECURSIVE StrLess(_, _)
StrLess(s, t) ==
    IF t = <<>> THEN FALSE
    ELSE IF s = <<>> THEN TRUE
    ELSE IF Head(s) # Head(t) THEN Ord(Head(s)) < Ord(Head(t))
    ELSE StrLess(Tail(s), Tail(t))

\* sorted(S) of a set of str
RECURSIVE Sorted(_)
Sorted(S) ==
    IF S = {} THEN <<>>
    ELSE LET m == CHOOSE x \in S : \A y \in S \ {x} : StrLess(x, y)
         IN <<m>> \o Sorted(S \ {m})

Dot == <<".">>

Quote == <<"\"">>

Sep == <<"/">>

\* os.path.splitext(p)[0]: cut the extension, the last dot of the last path
\* component when characters other than dots precede it there
SplitextRoot(p) ==
    LET slashes == {i \in 1..Len(p) : p[i] = "/"}
        base == IF slashes = {} THEN 1 ELSE 1 + (CHOOSE i \in slashes : \A j \in slashes : j <= i)
        dots == {i \in base..Len(p) : p[i] = "." /\ \E j \in base..(i - 1) : p[j] # "."}
    IN IF dots = {} THEN p
       ELSE SubSeq(p, 1, (CHOOSE i \in dots : \A j \in dots : j <= i) - 1)

\* os.path.dirname(p)
Dirname(p) ==
    LET slashes == {i \in 1..Len(p) : p[i] = "/"}
    IN IF slashes = {} THEN <<>>
       ELSE LET head == SubSeq(p, 1, CHOOSE i \in slashes : \A j \in slashes : j <= i)
            IN IF CharsOf(head) = {"/"} THEN head ELSE RStrip(head, Sep)

\* os.path.join(a, b) for a relative b
PathJoin(a, b) ==
    IF a = <<>> THEN b
    ELSE IF a[Len(a)] = "/" THEN a \o b
    ELSE a \o Sep \o b

-----------------------------------------------------------------------------
(* Descriptors.  A file is [name, package, decl, service, location]; decl  *)
(* is the table of its DescriptorProto / EnumDescriptorProto objects, each *)
(* [kind, parent, name, map_entry, field, value] with parent the index of  *)
(* the enclosing message (0 at top level).  An index into decl stands for  *)
(* the Python reference to the object.                                     *)

\* the indices of the declarations of `kind` directly inside `parent`, in order
Children(decl, parent, kind) ==
    SelectSeq([d \in 1..Len(decl) |-> d],
              LAMBDA d : decl[d].parent = parent /\ decl[d].kind = kind)

\* proto_file.enum_type (parent 0) or item.enum_type
enum_type(decl, parent) == Children(decl, parent, "enum")

\* proto_file.message_type (parent 0) or item.nested_type
nested_type(decl, parent) == Children(decl, parent, "message")

\* snake_case(value)
IsUpper(c) == \E i \in 1..Len(Upper) : Upper[i] = c

IsLower(c) == \E i \in 1..Len(LowerCase) : LowerCase[i] = c

RECURSIVE SnakeSub(_, _)
SnakeSub(v, i) ==
    IF i > Len(v) THEN <<>>
    ELSE (IF IsUpper(v[i]) /\ ((i > 1 /\ IsLower(v[i - 1])) \/ (i < Len(v) /\ ~IsUpper(v[i + 1])))
          THEN <<"_", v[i]>> ELSE <<v[i]>>) \o SnakeSub(v, i + 1)

snake_case(value) == Strip(Lower(SnakeSub(value, 1)), <<"_">>)

ImportFrom == <<"f", "r", "o", "m", " ", ".">>

ImportWord == <<" ", "i", "m", "p", "o", "r", "t", " ">>

\* lines 42-44: the reference is imported from another package
ImportedRef(imports, parts) ==
    [type |-> parts[Len(parts) - 1] \o Dot \o parts[Len(parts)],
     imports |-> imports \cup
         {ImportFrom \o Join(SubSeq(parts, 1, Len(parts) - 2), Dot) \o ImportWord
          \o parts[Len(parts) - 1]}]

\* lines 35-37: type_name after the test for the current package
LocalRef(package, type_name) ==
    IF StartsWith(type_name, package)
    THEN Quote \o Replace(LStrip(LStrip(type_name, package), Dot), ".", <<>>) \o Quote
    ELSE type_name

\* lines 39-46
QualifiedRef(imports, type_name) ==
    IF Contains(type_name, ".")
    THEN ImportedRef(imports, Split(type_name, "."))
    ELSE [type |-> type_name, imports |-> imports]

\* get_ref_type(package, imports, type_name): the type and the import set after it
get_ref_type(package, imports, type_name) ==
    QualifiedRef(imports, LocalRef(package, LStrip(type_name, Dot)))

PyFloat == <<"f", "l", "o", "a", "t">>

PyInt == <<"i", "n", "t">>

PyBool == <<"b", "o", "o", "l">>

PyStr == <<"s", "t", "r">>

PyBytes == <<"b", "y", "t", "e", "s">>

\* py_type(package, imports, message, descriptor); raised: NotImplementedError
py_type(package, imports, message, descriptor) ==
    IF descriptor.type \in {1, 2, 6, 7, 15, 16}
    THEN [raised |-> FALSE, type |-> PyFloat, imports |-> imports]
    ELSE IF descriptor.type \in {3, 4, 5, 13, 17, 18}
    THEN [raised |-> FALSE, type |-> PyInt, imports |-> imports]
    ELSE IF descriptor.type = 8
    THEN [raised |-> FALSE, type |-> PyBool, imports |-> imports]
    ELSE IF descriptor.type = 9
    THEN [raised |-> FALSE, type |-> PyStr, imports |-> imports]
    ELSE IF descriptor.type \in {11, 14}
    THEN [raised |-> FALSE] @@ get_ref_type(package, imports, descriptor.type_name)
    ELSE IF descriptor.type = 12
    THEN [raised |-> FALSE, type |-> PyBytes, imports |-> imports]
    ELSE [raised |-> TRUE, type |-> <<>>, imports |-> imports]

\* get_py_zero(type_num), as the text the value renders to
get_py_zero(type_num) ==
    IF type_num \in {} THEN "0.0"
    ELSE IF type_num = 8 THEN "False"
    ELSE IF type_num = 9 THEN "\"\""
    ELSE IF type_num = 11 THEN "None"
    ELSE IF type_num = 12 THEN "b\"\""
    ELSE "0"

\* FieldDescriptorProto.Type.Name(t)
TypeName ==
    << "TYPE_DOUBLE", "TYPE_FLOAT", "TYPE_INT64", "TYPE_UINT64", "TYPE_INT32",
       "TYPE_FIXED64", "TYPE_FIXED32", "TYPE_BOOL", "TYPE_STRING", "TYPE_GROUP",
       "TYPE_MESSAGE", "TYPE_BYTES", "TYPE_UINT32", "TYPE_ENUM", "TYPE_SFIXED32",
       "TYPE_SFIXED64", "TYPE_SINT32", "TYPE_SINT64" >>

\* f.Type.Name(f.type).lower()[5:]
FieldTypeLabel ==
    << "double", "float", "int64", "uint64", "int32", "fixed64", "fixed32", "bool",
       "string", "group", "message", "bytes", "uint32", "enum", "sfixed32",
       "sfixed64", "sint32", "sint64" >>

\* the yields of _traverse(path, items) from item number i on.  A yield is
\* [item, path, renamed_by]: renamed_by lists the messages whose current name
\* is prepended to item.name before the consumer sees the item, in order: the
\* message of line 95 for one of its enums, then the message of line 101 of
\* every enclosing generator the item passes through, innermost first.
RECURSIVE _traverse(_, _, _, _, _)
_traverse(decl, prefix, items, i, enclosing) ==
    IF i >= Len(items) THEN <<>>
    ELSE LET it == items[i + 1]
             isMessage == decl[it].kind = "message"
             enums == IF isMessage THEN enum_type(decl, it) ELSE <<>>
             nested == IF isMessage THEN nested_type(decl, it) ELSE <<>>
         IN <<[item |-> it, path |-> prefix \o <<i>>, renamed_by |-> enclosing]>>
            \o [k \in 1..Len(enums) |->
                   [item |-> enums[k], path |-> prefix \o <<i, 4>>,
                    renamed_by |-> <<it>> \o enclosing]]
            \o (IF nested # <<>>
                THEN _traverse(decl, prefix \o <<i, 3>>, nested, 0, <<it>> \o enclosing)
                ELSE <<>>)
            \o _traverse(decl, prefix, items, i + 1, enclosing)

\* traverse(proto_file): the whole sequence the generator yields
traverse(proto_file) ==
    _traverse(proto_file.decl, <<5>>, enum_type(proto_file.decl, 0), 0, <<>>)
    \o _traverse(proto_file.decl, <<4>>, nested_type(proto_file.decl, 0), 0, <<>>)

\* the declaration table after the renames of one yield (n.name = item.name + n.name)
RECURSIVE Rename(_, _, _)
Rename(decl, it, renamed_by) ==
    IF renamed_by = <<>> THEN decl
    ELSE Rename([decl EXCEPT ![it].name = decl[Head(renamed_by)].name \o @],
                it, Tail(renamed_by))

CommentIndent == <<" ", " ", " ", " ">>

FieldMark == <<"#", " ">>

DocMark == <<"\"", "\"", "\"">>

Newline == <<"\n">>

WrapWidth == 75

OneLineLimit == 70

\* get_comment(proto_file, path), for leading comments of one word shorter than
\* WrapWidth, which textwrap.wrap returns as one line; raised: IndexError
RECURSIVE get_comment_from(_, _, _)
get_comment_from(location, k, p) ==
    IF k > Len(location) THEN [raised |-> FALSE, text |-> <<>>]
    ELSE IF location[k].path = p /\ location[k].leading_comments # <<>>
    THEN LET line == location[k].leading_comments
         IN IF Len(p) < 2 \/ (p[Len(p) - 1] = 2 /\ Len(p) < 4)
            THEN [raised |-> TRUE, text |-> <<>>]
            ELSE IF p[Len(p) - 1] = 2 /\ p[Len(p) - 3] # 6
            THEN [raised |-> FALSE, text |-> CommentIndent \o FieldMark \o line]
            ELSE IF Len(line) < OneLineLimit
            THEN [raised |-> FALSE,
                  text |-> CommentIndent \o DocMark \o Strip(line, Quote) \o DocMark]
            ELSE [raised |-> FALSE,
                  text |-> CommentIndent \o DocMark \o Newline \o CommentIndent \o line
                           \o Newline \o CommentIndent \o DocMark]
    ELSE get_comment_from(location, k + 1, p)

get_comment(proto_file, p) == get_comment_from(proto_file.location, 1, p)

-----------------------------------------------------------------------------
(* generate_code: the body of the loop over traverse(proto_file).          *)

EntrySuffix == <<"e", "n", "t", "r", "y">>

DictOpen == <<"D", "i", "c", "t", "[">>

ListOpen == <<"L", "i", "s", "t", "[">>

CommaSpace == <<",", " ">>

BracketClose == <<"]">>

TypingDict == <<"D", "i", "c", "t">>

TypingList == <<"L", "i", "s", "t">>

TypingOptional == <<"O", "p", "t", "i", "o", "n", "a", "l">>

TypingAsyncGenerator == <<"A", "s", "y", "n", "c", "G", "e", "n", "e", "r", "a", "t", "o", "r">>

\* map_types of a field that is no map (None)
NoMapTypes == <<>>

\* lines 215-233: the nested message is the map entry of the field; k and v
\* are what py_type returned for its fields 0 and 1
MapFound(acc, nd, k, v) ==
    IF k.raised \/ v.raised
    THEN [acc EXCEPT !.raised = TRUE]
    ELSE [raised |-> FALSE,
          t |-> DictOpen \o k.type \o CommaSpace \o v.type \o BracketClose,
          field_type |-> "map",
          map_types |-> <<TypeName[nd.field[1].type], TypeName[nd.field[2].type]>>,
          imports |-> v.imports,
          typing_imports |-> acc.typing_imports \cup {TypingDict}]

\* lines 209-233: one nested message of the loop at line 208; fewer than two
\* fields make nested.field[0] or nested.field[1] raise IndexError
MapProbe(package, it, nd, map_entry, acc) ==
    IF Lower(Replace(nd.name, "_", <<>>)) = map_entry /\ nd.map_entry
    THEN IF Len(nd.field) < 2
         THEN [acc EXCEPT !.raised = TRUE]
         ELSE MapFound(acc, nd, py_type(package, acc.imports, it, nd.field[1]),
                       py_type(package, py_type(package, acc.imports, it, nd.field[1]).imports,
                               it, nd.field[2]))
    ELSE acc

\* lines 208-233: the loop over item.nested_type that looks for the map entry
\* of a field; acc is [raised, t, field_type, map_types, imports, typing_imports]
RECURSIVE MapScan(_, _, _, _, _, _)
MapScan(package, decl, it, nested, map_entry, acc) ==
    IF acc.raised \/ nested = <<>> THEN acc
    ELSE MapScan(package, decl, it, Tail(nested), map_entry,
                 MapProbe(package, it, decl[Head(nested)], map_entry, acc))

\* line 203: f.type_name.split(".").pop().lower()
LastSegmentLower(segments) == Lower(segments[Len(segments)])

\* line 205
MapEntryName(f) == Lower(Replace(f.name, "_", <<>>)) \o EntrySuffix

\* lines 193-200: the field before the map test; pt is what py_type returned
PlainField(f, pt, typing_imports) ==
    [raised |-> pt.raised, t |-> pt.type, field_type |-> FieldTypeLabel[f.type],
     map_types |-> NoMapTypes, imports |-> pt.imports, typing_imports |-> typing_imports]

\* lines 201-233
DetectMap(package, decl, it, f, plain) ==
    IF ~plain.raised /\ f.type = 11
       /\ LastSegmentLower(Split(f.type_name, ".")) = MapEntryName(f)
    THEN MapScan(package, decl, it, nested_type(decl, it), MapEntryName(f), plain)
    ELSE plain

\* the types line 242 marks packed
PackedTypes == {1, 2, 3, 4, 5, 6, 7, 8, 13, 15, 16, 17, 18}

\* line 235
Repeated(f, m) == f.label = 3 /\ m.field_type # "map"

\* line 242
Packed(f) == f.type \in PackedTypes

\* lines 235-258: the entry appended to data["properties"]
Property(f, m, comment, repeated) ==
    [name |-> f.name,
     number |-> f.number,
     comment |-> comment,
     proto_type |-> f.type,
     field_type |-> m.field_type,
     map_types |-> m.map_types,
     type |-> IF repeated THEN ListOpen \o m.t \o BracketClose ELSE m.t,
     zero |-> IF repeated THEN "[]" ELSE get_py_zero(f.type),
     repeated |-> repeated,
     packed |-> repeated /\ Packed(f)]

\* lines 193-258: one field; m is the field after the map test
FieldStep(acc, f, m, comment) ==
    IF m.raised \/ comment.raised
    THEN [acc EXCEPT !.raised = TRUE]
    ELSE [raised |-> FALSE,
          properties |-> Append(acc.properties, Property(f, m, comment.text, Repeated(f, m))),
          imports |-> m.imports,
          typing_imports |-> m.typing_imports
                             \cup (IF Repeated(f, m) THEN {TypingList} ELSE {})]

\* lines 192-258: the loop over item.field from field number i on; acc is
\* [raised, properties, imports, typing_imports]
RECURSIVE CompileFields(_, _, _, _, _, _)
CompileFields(package, proto_file, it, p, i, acc) ==
    IF acc.raised \/ i >= Len(proto_file.decl[it].field) THEN acc
    ELSE CompileFields(package, proto_file, it, p, i + 1,
             FieldStep(acc, proto_file.decl[it].field[i + 1],
                 DetectMap(package, proto_file.decl, it, proto_file.decl[it].field[i + 1],
                     PlainField(proto_file.decl[it].field[i + 1],
                         py_type(package, acc.imports, it, proto_file.decl[it].field[i + 1]),
                         acc.typing_imports)),
                 get_comment(proto_file, p \o <<2, i>>)))

\* lines 268-275: the entries of an enum from value number i on
RECURSIVE EnumEntries(_, _, _, _, _)
EnumEntries(proto_file, it, p, i, acc) ==
    IF acc.raised \/ i >= Len(proto_file.decl[it].value) THEN acc
    ELSE EnumEntries(proto_file, it, p, i + 1,
             [raised |-> get_comment(proto_file, p \o <<2, i>>).raised,
              entries |-> Append(acc.entries,
                  [name |-> proto_file.decl[it].value[i + 1].name,
                   value |-> proto_file.decl[it].value[i + 1].number,
                   comment |-> get_comment(proto_file, p \o <<2, i>>).text])])

\* lines 184-261: a message is appended to output["messages"]
MessageData(out, d, comment, fs) ==
    [raised |-> comment.raised \/ fs.raised,
     output |-> [out EXCEPT
         !.imports = fs.imports,
         !.typing_imports = fs.typing_imports,
         !.messages = Append(@, [name |-> d.name, type |-> "Message",
                                 comment |-> comment.text,
                                 properties |-> fs.properties])]]

\* lines 264-279: an enum is appended to output["enums"]
EnumData(out, d, comment, es) ==
    [raised |-> comment.raised \/ es.raised,
     output |-> [out EXCEPT
         !.enums = Append(@, [name |-> d.name, type |-> "Enum",
                              comment |-> comment.text,
                              entries |-> es.entries])]]

\* lines 176-279: the loop body for one yielded (item, path); out is `output`
CompileDecl(out, proto_file, it, p) ==
    IF proto_file.decl[it].kind = "message"
    THEN IF proto_file.decl[it].map_entry
         THEN [raised |-> FALSE, output |-> out]
         ELSE MessageData(out, proto_file.decl[it], get_comment(proto_file, p),
                  CompileFields(out.package, proto_file, it, p, 0,
                      [raised |-> FALSE, properties |-> <<>>, imports |-> out.imports,
                       typing_imports |-> out.typing_imports]))
    ELSE EnumData(out, proto_file.decl[it], get_comment(proto_file, p),
             EnumEntries(proto_file, it, p, 0, [raised |-> FALSE, entries |-> <<>>]))

\* lines 298-304: the index in output["messages"] of the first message named
\* input_type (0: input_message stays None); an index stands for the reference
FindMessage(messages, input_type) ==
    IF \E k \in 1..Len(messages) : messages[k].name = input_type
    THEN CHOOSE k \in 1..Len(messages) :
             /\ messages[k].name = input_type
             /\ \A j \in 1..(k - 1) : messages[j].name # input_type
    ELSE 0

\* lines 301-303: the input message has a property whose zero is "None"
HasOptional(messages, input_message) ==
    /\ input_message # 0
    /\ \E k \in 1..Len(messages[input_message].properties) :
           messages[input_message].properties[k].zero = "None"

\* lines 306-325: the entry appended to data["methods"] and the imports after
\* it; in1, in2 and out1 are what the calls of get_ref_type at lines 295, 312
\* and 316 returned
MethodEntry(out, service, method, acc, comment, input_message, in2, out1) ==
    [raised |-> FALSE,
     methods |-> Append(acc.methods,
         [name |-> method.name,
          py_name |-> snake_case(method.name),
          comment |-> comment.text,
          route |-> Sep \o out.package \o Dot \o service.name \o Sep \o method.name,
          input |-> Strip(in2.type, Quote),
          input_message |-> input_message,
          output |-> Strip(out1.type, Quote),
          client_streaming |-> method.client_streaming,
          server_streaming |-> method.server_streaming]),
     imports |-> out1.imports,
     typing_imports |-> acc.typing_imports
         \cup (IF HasOptional(out.messages, input_message) THEN {TypingOptional} ELSE {})
         \cup (IF method.server_streaming THEN {TypingAsyncGenerator} ELSE {})]

MethodWithInput(out, service, method, acc, comment, input_message, in2) ==
    MethodEntry(out, service, method, acc, comment, input_message, in2,
                get_ref_type(out.package, in2.imports, method.output_type))

MethodWithRef(out, service, method, acc, comment, in1) ==
    MethodWithInput(out, service, method, acc, comment,
                    FindMessage(out.messages, Strip(in1.type, Quote)),
                    get_ref_type(out.package, in1.imports, method.input_type))

\* one method, compiled as if line 291 did not look at client_streaming
MethodStepNoRaise(out, service, method, acc, comment) ==
    IF comment.raised
    THEN [acc EXCEPT !.raised = TRUE]
    ELSE MethodWithRef(out, service, method, acc, comment,
                       get_ref_type(out.package, acc.imports, method.input_type))

\* lines 291-325: one method
MethodStep(out, service, method, acc, comment) ==
    IF method.client_streaming \/ comment.raised
    THEN [acc EXCEPT !.raised = TRUE]
    ELSE MethodWithRef(out, service, method, acc, comment,
                       get_ref_type(out.package, acc.imports, method.input_type))

\* lines 290-325: the loop over service.method from method number j on; acc is
\* [raised, methods, imports, typing_imports]
RECURSIVE CompileMethods(_, _, _, _, _, _)
CompileMethods(out, proto_file, service, i, j, acc) ==
    IF acc.raised \/ j >= Len(service.method) THEN acc
    ELSE CompileMethods(out, proto_file, service, i, j + 1,
             MethodStep(out, service, service.method[j + 1], acc,
                        get_comment(proto_file, <<6, i, 2, j>>)))

\* lines 284-327: a service is appended to output["services"]
ServiceData(out, service, comment, ms) ==
    [raised |-> comment.raised \/ ms.raised,
     output |-> [out EXCEPT
         !.imports = ms.imports,
         !.typing_imports = ms.typing_imports,
         !.services = Append(@, [name |-> service.name, comment |-> comment.text,
                                 methods |-> ms.methods])]]

\* lines 281-327: the loop body for service number i of the file
CompileServiceBody(out, proto_file, i) ==
    ServiceData(out, proto_file.service[i + 1], get_comment(proto_file, <<6, i>>),
        CompileMethods(out, proto_file, proto_file.service[i + 1], i, 0,
            [raised |-> FALSE, methods |-> <<>>, imports |-> out.imports,
             typing_imports |-> out.typing_imports]))

-----------------------------------------------------------------------------
(* main() and generate_code() as a state machine.                          *)

\* `item` before the loop at line 173 has bound it
NoItem == [file |-> 0, decl |-> 0]

\* `output` before the loop at line 153 has bound it
NoOutput ==
    [package |-> <<>>, files |-> <<>>, imports |-> {}, typing_imports |-> {},
     messages |-> <<>>, enums |-> <<>>, services |-> <<>>]

PyExt == <<".", "p", "y">>

InitPy == <<"_", "_", "i", "n", "i", "t", "_", "_", ".", "p", "y">>

\* the unit and the file the loops at lines 153 and 168 are in
Unit == output_map[u]

FileIndex == Unit.files[fi]

ProtoFile == request[FileIndex]

\* lines 141-148: one iteration of the grouping loop
GroupFile ==
    /\ pc = "group"
    /\ n < Len(request)
    /\ LET proto_file == request[n + 1]
           out == IF proto_file.package # <<>>
                  THEN proto_file.package
                  ELSE Replace(SplitextRoot(proto_file.name), "/", Dot)
           known == {k \in 1..Len(output_map) : output_map[k].out = out}
       IN output_map' =
              IF known = {}
              THEN Append(output_map,
                          [out |-> out, package |-> proto_file.package, files |-> <<n + 1>>])
              ELSE [output_map EXCEPT ![CHOOSE k \in known : TRUE].files = Append(@, n + 1)]
    /\ n' = n + 1
    /\ pc' = IF n + 1 = Len(request) THEN "units" ELSE "group"
    /\ UNCHANGED <<data, request, u, fi, gen, si, item, path, output, response, inits,
                   dirs, stdout>>

\* lines 153-166: the loop enters the next unit
StartUnit ==
    /\ pc = "units"
    /\ u < Len(output_map)
    /\ u' = u + 1
    /\ output' = [package |-> output_map[u + 1].package,
                  files |-> [k \in 1..Len(output_map[u + 1].files) |->
                                request[output_map[u + 1].files[k]].name],
                  imports |-> {}, typing_imports |-> {},
                  messages |-> <<>>, enums |-> <<>>, services |-> <<>>]
    /\ fi' = 1
    /\ gen' = 0
    /\ si' = 0
    /\ pc' = "file"
    /\ UNCHANGED <<data, request, output_map, n, item, path, response, inits, dirs, stdout>>

\* the state after the loop body ran on the yield y, r being its outcome
Consumed(y, r) ==
    /\ item' = [file |-> FileIndex, decl |-> y.item]
    /\ path' = y.path
    /\ output' = IF r.raised THEN output ELSE r.output
    /\ pc' = IF r.raised THEN "failed" ELSE "file"

\* the file after the renames traverse() makes before it yields y
Renamed(proto_file, y) == [proto_file EXCEPT !.decl = Rename(@, y.item, y.renamed_by)]

Yield(y) ==
    /\ request' = [request EXCEPT ![FileIndex] = Renamed(ProtoFile, y)]
    /\ Consumed(y, CompileDecl(output, Renamed(ProtoFile, y), y.item, y.path))

\* line 173: traverse() has another item to yield
MoreItems ==
    /\ pc = "file"
    /\ gen < Len(traverse(ProtoFile))

\* lines 173-279: traverse() yields its next item (renaming it on the way up)
\* and the loop body compiles it
CompileItem ==
    /\ MoreItems
    /\ Yield(traverse(ProtoFile)[gen + 1])
    /\ gen' = gen + 1
    /\ UNCHANGED <<data, output_map, n, u, fi, si, response, inits, dirs, stdout>>

\* the state after the loop body ran on a service, r being its outcome
Served(r) ==
    /\ output' = IF r.raised THEN output ELSE r.output
    /\ pc' = IF r.raised THEN "failed" ELSE "file"

\* line 281: the items are done and the file has another service
MoreServices ==
    /\ pc = "file"
    /\ gen = Len(traverse(ProtoFile))
    /\ si < Len(ProtoFile.service)

\* lines 281-327: the next service of the file
CompileService ==
    /\ MoreServices
    /\ Served(CompileServiceBody(output, ProtoFile, si))
    /\ si' = si + 1
    /\ UNCHANGED <<data, request, output_map, n, u, fi, gen, item, path, response, inits,
                   dirs, stdout>>

\* line 168: the loop goes on to the unit's next file
NextFile ==
    /\ pc = "file"
    /\ gen = Len(traverse(ProtoFile))
    /\ si = Len(ProtoFile.service)
    /\ fi < Len(Unit.files)
    /\ fi' = fi + 1
    /\ gen' = 0
    /\ si' = 0
    /\ UNCHANGED <<data, request, pc, output_map, n, u, item, path, output, response,
                   inits, dirs, stdout>>

\* lines 329-338: the unit is sorted, rendered and added to the response; the
\* content is the description handed to template.render
FinishUnit ==
    /\ pc = "file"
    /\ gen = Len(traverse(ProtoFile))
    /\ si = Len(ProtoFile.service)
    /\ fi = Len(Unit.files)
    /\ output' = [output EXCEPT !.imports = Sorted(@), !.typing_imports = Sorted(@)]
    /\ response' = Append(response,
                          [name |-> Replace(Unit.out, ".", Sep) \o PyExt, content |-> output'])
    /\ pc' = "units"
    /\ UNCHANGED <<data, request, output_map, n, u, fi, gen, si, item, path, inits, dirs,
                   stdout>>

\* lines 347-350: the bases of the directory `parts`, joined from `base` on
RECURSIVE Bases(_, _)
Bases(base, parts) ==
    IF parts = <<>> THEN {}
    ELSE {PathJoin(base, Head(parts))} \cup Bases(PathJoin(base, Head(parts)), Tail(parts))

\* lines 340-350: the directories of the response files are made and collected
MakeDirs ==
    /\ pc = "units"
    /\ u = Len(output_map)
    /\ LET named == {Dirname(response[k].name) : k \in 1..Len(response)} \ {<<>>}
       IN /\ dirs' = dirs \cup UNION {Bases(<<>>, Split(d, "/")) : d \in named}
          /\ inits' = {<<>>} \cup UNION {Bases(<<>>, Split(d, "/")) : d \in named}
    /\ pc' = "inits"
    /\ UNCHANGED <<data, request, output_map, n, u, fi, gen, si, item, path, output,
                   response, stdout>>

\* lines 352-355: one iteration over the set `inits`, in the order the set gives
AddInit ==
    /\ pc = "inits"
    /\ \E base \in inits :
          /\ response' = Append(response, [name |-> PathJoin(base, InitPy), content |-> <<>>])
          /\ inits' = inits \ {base}
    /\ UNCHANGED <<data, request, pc, output_map, n, u, fi, gen, si, item, path, output,
                   dirs, stdout>>

\* lines 373-377: main serialises the response and writes it to stdout
WriteResponse ==
    /\ pc = "inits"
    /\ inits = {}
    /\ stdout' = Append(stdout, response)
    /\ pc' = "done"
    /\ UNCHANGED <<data, request, output_map, n, u, fi, gen, si, item, path, output,
                   response, inits, dirs>>

Next ==
    \/ GroupFile
    \/ StartUnit
    \/ CompileItem
    \/ CompileService
    \/ NextFile
    \/ FinishUnit
    \/ MakeDirs
    \/ AddInit
    \/ WriteResponse

-----------------------------------------------------------------------------
(* The requests main() is started on: what protoc hands a plugin.          *)

DigitChar == <<"1", "2", "3", "4", "5", "6", "7", "8", "9">>

\* the path of declaration d by the convention of descriptor.proto: 4 and 5
\* number the messages and enums of a file, 3 and 4 those of a message
RECURSIVE SchemaPath(_, _)
SchemaPath(decl, d) ==
    LET parent == decl[d].parent
        kind == decl[d].kind
        siblings == Children(decl, parent, kind)
        index == (CHOOSE k \in 1..Len(siblings) : siblings[k] = d) - 1
    IN IF parent = 0
       THEN <<IF kind = "message" THEN 4 ELSE 5, index>>
       ELSE SchemaPath(decl, parent) \o <<IF kind = "message" THEN 3 ELSE 4, index>>

\* the leading comment every declaration d of the requests carries
LeadingComment(d) == <<"c", DigitChar[d]>>

\* source_code_info.location of a file with these declarations
Locations(decl) ==
    [d \in 1..Len(decl) |->
        [path |-> SchemaPath(decl, d), leading_comments |-> LeadingComment(d)]]

FileOf(name, package, decl, service) ==
    [name |-> name, package |-> package, decl |-> decl, service |-> service,
     location |-> Locations(decl)]

Message(parent, name, map_entry, field) ==
    [kind |-> "message", parent |-> parent, name |-> name, map_entry |-> map_entry,
     field |-> field, value |-> <<>>]

Enum(parent, name) ==
    [kind |-> "enum", parent |-> parent, name |-> name, map_entry |-> FALSE,
     field |-> <<>>, value |-> <<[name |-> <<"Z">>, number |-> 0]>>]

Field(name, number, type, label, type_name) ==
    [name |-> name, number |-> number, type |-> type, label |-> label,
     type_name |-> type_name]

PkgP == <<"p">>

PkgQ == <<"q">>

\* declaration trees of up to MaxDecls messages and enums
TreeNames == {<<"A">>, <<"B">>, <<"A", "B">>}

WellFormedTree(t) ==
    \A d \in DOMAIN t :
        /\ t[d].parent < d
        /\ t[d].parent # 0 => t[t[d].parent].kind = "message"
        /\ \A e \in DOMAIN t : e # d /\ t[e].parent = t[d].parent => t[e].name # t[d].name

Trees ==
    UNION {{t \in [1..k -> [kind : {"message", "enum"}, parent : 0..(MaxDecls - 1),
                            name : TreeNames]] : WellFormedTree(t)} : k \in 1..MaxDecls}

TreeDecl(t) ==
    [d \in DOMAIN t |-> IF t[d].kind = "message"
                        THEN Message(t[d].parent, t[d].name, FALSE, <<>>)
                        ELSE Enum(t[d].parent, t[d].name)]

TreeRequests == {<<FileOf(<<"t", ".", "p", "r", "o", "t", "o">>, PkgP, TreeDecl(t), <<>>)>> : t \in Trees}

\* one message with one field of every type and label
FieldTypeRef(type) ==
    IF type \in {10, 11} THEN <<".", "p", ".", "T">> ELSE IF type = 14 THEN <<".", "p", ".", "E">> ELSE <<>>

FieldRequests ==
    {<<FileOf(<<"f", ".", "p", "r", "o", "t", "o">>, PkgP,
              <<Message(0, <<"M">>, FALSE,
                        <<Field(<<"f">>, 1, type, label, FieldTypeRef(type))>>),
                Message(0, <<"T">>, FALSE, <<>>),
                Enum(0, <<"E">>)>>,
              <<>>)>> : type \in 1..18, label \in 1..3}

\* a message with a map field x (protoc adds the nested XEntry, flagged as a
\* map entry) and/or a field whose type is a nested message the schema declares
MapEntry(value_type) ==
    Message(1, <<"X", "E", "n", "t", "r", "y">>, TRUE,
            <<Field(<<"k", "e", "y">>, 1, 9, 1, <<>>), Field(<<"v", "a", "l", "u", "e">>, 2, value_type, 1, <<>>)>>)

MapField(number) == Field(<<"x">>, number, 11, 3, <<".", "p", ".", "M", ".", "X", "E", "n", "t", "r", "y">>)

PlainNames == {<<"X", "E", "n", "t", "r", "y">>, <<"X", "e", "n", "t", "r", "y">>}

MapRequests ==
    {<<FileOf(<<"m", ".", "p", "r", "o", "t", "o">>, PkgP, <<Message(0, <<"M">>, FALSE, <<MapField(1)>>), MapEntry(vt)>>,
              <<>>)>> : vt \in {5, 9}}
    \cup {<<FileOf(<<"m", ".", "p", "r", "o", "t", "o">>, PkgP,
                   <<Message(0, <<"M">>, FALSE,
                             <<Field(<<"x">>, 1, 11, label, <<".", "p", ".", "M", ".">> \o name)>>),
                     Message(1, name, FALSE, <<>>)>>,
                   <<>>)>> : name \in PlainNames, label \in {1, 3}}
    \cup {<<FileOf(<<"m", ".", "p", "r", "o", "t", "o">>, PkgP,
                   <<Message(0, <<"M">>, FALSE,
                             <<MapField(1), Field(<<"x", "_">>, 2, 11, label, <<".", "p", ".", "M", ".", "X", "e", "n", "t", "r", "y">>)>>),
                     MapEntry(vt),
                     Message(1, <<"X", "e", "n", "t", "r", "y">>, FALSE, <<>>)>>,
                   <<>>)>> : vt \in {5, 9}, label \in {1, 3}}

\* a message field that refers to a type of package ref_package from a file of
\* package package; the file that declares the type comes first, as protoc
\* orders dependencies
RefPackages == {<<>>, <<"a">>, <<"a", "b">>, <<"a", ".", "b">>}

RefTargets == {<<"T">>, <<"b", "T">>}

Qualified(package, names) ==
    Dot \o (IF package = <<>> THEN <<>> ELSE package \o Dot) \o Join(names, Dot)

RefRequest(package, ref_package, target, nested) ==
    LET type_name == Qualified(ref_package, IF nested THEN <<target, <<"N">>>> ELSE <<target>>)
        user == Message(0, <<"M">>, FALSE, <<Field(<<"f">>, 1, 11, 1, type_name)>>)
    IN IF package = ref_package
       THEN <<FileOf(<<"m", ".", "p", "r", "o", "t", "o">>, package,
                     <<user, Message(0, target, FALSE, <<>>), Message(2, <<"N">>, FALSE, <<>>)>>,
                     <<>>)>>
       ELSE <<FileOf(<<"d", ".", "p", "r", "o", "t", "o">>, ref_package,
                     <<Message(0, target, FALSE, <<>>), Message(1, <<"N">>, FALSE, <<>>)>>,
                     <<>>),
              FileOf(<<"m", ".", "p", "r", "o", "t", "o">>, package, <<user>>, <<>>)>>

RefRequests ==
    {RefRequest(package, ref_package, target, nested) :
        package \in RefPackages, ref_package \in RefPackages,
        target \in RefTargets, nested \in BOOLEAN}

\* services whose methods take the messages A, A.B and A.B.C of package p
Chain ==
    <<Message(0, <<"A">>, FALSE, <<>>), Message(1, <<"B">>, FALSE, <<>>),
      Message(2, <<"C">>, FALSE, <<>>)>>

ChainRefs == {<<".", "p", ".", "A">>, <<".", "p", ".", "A", ".", "B">>, <<".", "p", ".", "A", ".", "B", ".", "C">>}

MethodShapes ==
    [input_type : ChainRefs, client_streaming : BOOLEAN, server_streaming : BOOLEAN]

MethodLists == UNION {[1..k -> MethodShapes] : k \in 1..MaxMethods}

Methods(shapes) ==
    [j \in DOMAIN shapes |->
        [name |-> <<"D", DigitChar[j]>>,
         input_type |-> shapes[j].input_type,
         output_type |-> <<".", "p", ".", "A">>,
         client_streaming |-> shapes[j].client_streaming,
         server_streaming |-> shapes[j].server_streaming]]

ServiceS(shapes) == [name |-> <<"S">>, method |-> Methods(shapes)]

ServiceE(client_streaming) ==
    [name |-> <<"E">>,
     method |-> <<[name |-> <<"D", "o">>, input_type |-> <<".", "q", ".", "T">>, output_type |-> <<".", "q", ".", "T">>,
                   client_streaming |-> client_streaming, server_streaming |-> FALSE]>>]

ServiceRequests ==
    {<<FileOf(<<"s", ".", "p", "r", "o", "t", "o">>, PkgP, Chain, <<ServiceS(ms)>>)>> : ms \in MethodLists}
    \cup {<<FileOf(<<"e", ".", "p", "r", "o", "t", "o">>, PkgP, Chain, <<>>),
            FileOf(<<"s", ".", "p", "r", "o", "t", "o">>, PkgP, <<Message(0, <<"D">>, FALSE, <<>>)>>, <<ServiceS(ms)>>)>> :
             ms \in [1..1 -> MethodShapes]}
    \cup {<<FileOf(<<"e", ".", "p", "r", "o", "t", "o">>, PkgQ, <<Message(0, <<"T">>, FALSE, <<>>)>>, <<ServiceE(cs)>>),
            FileOf(<<"s", ".", "p", "r", "o", "t", "o">>, PkgP, Chain, <<ServiceS(ms)>>)>> :
             cs \in BOOLEAN, ms \in [1..1 -> MethodShapes]}

\* up to MaxFiles files with and without a declared package
GroupFileNames == {<<"p", ".", "p", "r", "o", "t", "o">>, <<"q", "/", "r", ".", "p", "r", "o", "t", "o">>, <<"x", ".", "p", "r", "o", "t", "o">>}

GroupPackages == {<<>>, <<"p">>, <<"q", ".", "r">>}

GroupRequests ==
    UNION {{[k \in 1..len |->
                FileOf(fs[k].name, fs[k].package,
                       <<Message(0, <<"M", DigitChar[k]>>, FALSE, <<>>)>>, <<>>)] :
            fs \in {g \in [1..len -> [name : GroupFileNames, package : GroupPackages]] :
                       \A i, j \in 1..len : i # j => g[i].name # g[j].name}} :
           len \in 1..MaxFiles}

Requests ==
    TreeRequests \cup FieldRequests \cup MapRequests \cup RefRequests
    \cup ServiceRequests \cup GroupRequests

\* the fully qualified name of declaration d of a file
RECURSIVE NamePath(_, _)
NamePath(decl, d) ==
    IF decl[d].parent = 0 THEN <<decl[d].name>>
    ELSE Append(NamePath(decl, decl[d].parent), decl[d].name)

FullName(file, d) == Qualified(file.package, NamePath(file.decl, d))

\* a schema protoc accepts: file names and fully qualified names are distinct
ValidRequest(r) ==
    /\ \A i, j \in 1..Len(r) : i # j => r[i].name # r[j].name
    /\ \A i, j \in 1..Len(r) : \A d \in 1..Len(r[i].decl) : \A e \in 1..Len(r[j].decl) :
          (i # j \/ d # e) => FullName(r[i], d) # FullName(r[j], e)

\* lines 360-368: the request is read and parsed, the response is empty
Init ==
    /\ data \in {r \in Requests : ValidRequest(r)}
    /\ request = data
    /\ pc = "group"
    /\ output_map = <<>>
    /\ n = 0
    /\ u = 0
    /\ fi = 0
    /\ gen = 0
    /\ si = 0
    /\ item = NoItem
    /\ path = <<>>
    /\ output = NoOutput
    /\ response = <<>>
    /\ inits = {}
    /\ dirs = {}
    /\ stdout = <<>>

Spec == Init /\ [][Next]_vars

-----------------------------------------------------------------------------
(* The properties.  `data` keeps every declaration as the schema declares  *)
(* it, so what was compiled is compared with what was declared.            *)

\* the loop body at line 173 has just run on `item`, a declaration of the
\* current file, without raising
JustCompiled == pc = "file" /\ gen > 0 /\ item.file = FileIndex

\* the declaration `item` refers to, as declared
Declared == data[item.file].decl[item.decl]

\* the simple names of the enclosing messages, outer to inner, then its own
FlattenedName(file, d) == Join(NamePath(file.decl, d), <<>>)

\* the messages of a file that are compiled (no map entries), in the order of traverse
CompiledMessages(file) ==
    SelectSeq([k \in 1..Len(traverse(file)) |-> traverse(file)[k].item],
              LAMBDA d : file.decl[d].kind = "message" /\ ~file.decl[d].map_entry)

\* the entry of output["messages"] made for the message just compiled
LastMessage == output.messages[Len(output.messages)]

\* the declaration a type reference names: <<file, declaration>> pairs
Named(type_name) ==
    {fd \in {<<f, d>> : f \in 1..Len(data), d \in 1..MaxDecls + 3} :
        /\ fd[2] <= Len(data[fd[1]].decl)
        /\ FullName(data[fd[1]], fd[2]) = type_name}

\* C1: every message and enum is recorded under the simple names of its
\* enclosing messages, outer to inner, each once, followed by its own name
C1_FlattenedNameOfEveryDepth ==
    (JustCompiled /\ ~Declared.map_entry) =>
        IF Declared.kind = "message"
        THEN LastMessage.name = FlattenedName(data[item.file], item.decl)
        ELSE output.enums[Len(output.enums)].name = FlattenedName(data[item.file], item.decl)

\* the names of the messages and enums of a rendered unit
UnitNames(content) ==
    [k \in 1..Len(content.messages) |-> content.messages[k].name]
    \o [k \in 1..Len(content.enums) |-> content.enums[k].name]

\* C2: after a unit is compiled no two of its messages and enums carry the
\* same name, for every schema whose fully qualified names are distinct
C2_UnitNamesUnique ==
    \A k \in 1..Len(response) :
        k <= Len(output_map) =>
            \A i, j \in 1..Len(UnitNames(response[k].content)) :
                i # j => UnitNames(response[k].content)[i] # UnitNames(response[k].content)[j]

\* the nested messages of the message just compiled that a field's type names
TypeOfField(f) ==
    {e \in 1..Len(data[item.file].decl) :
        /\ data[item.file].decl[e].parent = item.decl
        /\ data[item.file].decl[e].kind = "message"
        /\ FullName(data[item.file], e) = f.type_name}

\* the number of messages compiled so far in the unit, map entries left out
ExpectedMessageCount ==
    LET earlier == [k \in 1..(fi - 1) |-> Len(CompiledMessages(data[Unit.files[k]]))]
        now == Len(SelectSeq(SubSeq(traverse(data[FileIndex]), 1, gen),
                   LAMBDA y : data[FileIndex].decl[y.item].kind = "message"
                              /\ ~data[FileIndex].decl[y.item].map_entry))
        Sum[k \in 0..(fi - 1)] == IF k = 0 THEN 0 ELSE Sum[k - 1] + earlier[k]
    IN Sum[fi - 1] + now

\* C3: a field whose type is a nested map entry becomes a map field of type
\* Dict[K, V], not repeated, and the entry is no message of the unit; a field
\* whose type is a same-named nested message that is no map entry stays a
\* message field, and that message is a message of the unit
C3_MapEntryDetection ==
    JustCompiled =>
        /\ Len(output.messages) = ExpectedMessageCount
        /\ (Declared.kind = "message" /\ ~Declared.map_entry) =>
              \A i \in 1..Len(Declared.field) :
                  \A e \in TypeOfField(Declared.field[i]) :
                      LET f == Declared.field[i]
                          nested == data[item.file].decl[e]
                          prop == LastMessage.properties[i]
                      IN Declared.field[i].type = 11 =>
                          IF nested.map_entry
                          THEN /\ prop.field_type = "map"
                               /\ prop.type = DictOpen
                                      \o py_type(output.package, {}, item.decl, nested.field[1]).type
                                      \o CommaSpace
                                      \o py_type(output.package, {}, item.decl, nested.field[2]).type
                                      \o BracketClose
                               /\ ~prop.repeated
                          ELSE Lower(Replace(nested.name, "_", <<>>)) = MapEntryName(f) =>
                                  /\ prop.field_type = "message"
                                  /\ prop.map_types = NoMapTypes

\* the wire types that can be packed: the numeric types, bool and enum
PackableTypes == (1..18) \ {9, 10, 11, 12}

\* C4: a repeated field that is no map is packed exactly when its type is
\* numeric, bool or enum; a field that is not repeated is never packed
C4_PackedRepeatedScalars ==
    (JustCompiled /\ Declared.kind = "message" /\ ~Declared.map_entry) =>
        \A i \in 1..Len(Declared.field) :
            LastMessage.properties[i].packed =
                (/\ Declared.field[i].label = 3
                 /\ LastMessage.properties[i].field_type # "map"
                 /\ Declared.field[i].type \in PackableTypes)

\* the classification table: target type and default of a wire type
TableType(type) ==
    IF type \in {1, 2, 6, 7, 16, 15} THEN PyFloat
    ELSE IF type \in {3, 4, 5, 13, 18, 17} THEN PyInt
    ELSE IF type = 8 THEN PyBool
    ELSE IF type = 9 THEN PyStr
    ELSE PyBytes

TableDefault(type) ==
    IF type \in {1, 2, 6, 7, 16, 15} THEN "0.0"
    ELSE IF type \in {3, 4, 5, 13, 18, 17} THEN "0"
    ELSE IF type = 8 THEN "False"
    ELSE IF type = 9 THEN "\"\""
    ELSE IF type = 12 THEN "b\"\""
    ELSE IF type = 11 THEN "None"
    ELSE "0"

\* C6: a field that is neither repeated nor a map has the target type and the
\* default of the classification table, and a wire type outside the table is
\* never compiled into a field: compilation fails
C6_TypeAndDefaultTable ==
    (JustCompiled /\ Declared.kind = "message" /\ ~Declared.map_entry) =>
        \A i \in 1..Len(Declared.field) :
            /\ Declared.field[i].type \in (1..18) \ {10}
            /\ (~LastMessage.properties[i].repeated
                /\ LastMessage.properties[i].field_type # "map") =>
                  /\ LastMessage.properties[i].zero = TableDefault(Declared.field[i].type)
                  /\ Declared.field[i].type \notin {11, 14} =>
                        LastMessage.properties[i].type = TableType(Declared.field[i].type)

\* the fields of the messages compiled so far in the unit that refer to a type
ReferencesSoFar ==
    {fy \in {<<k, g, i>> : k \in 1..fi, g \in 1..(2 * MaxDecls + 2), i \in 1..2} :
        /\ fy[2] <= (IF fy[1] = fi THEN gen ELSE Len(traverse(data[Unit.files[fy[1]]])))
        /\ LET file == data[Unit.files[fy[1]]]
               d == file.decl[traverse(file)[fy[2]].item]
           IN /\ d.kind = "message"
              /\ fy[3] <= Len(d.field)
              /\ d.field[fy[3]].type \in {11, 14}}

\* the last segment and what precedes it of a dotted name
LastSegment(name) == Split(name, ".")[Len(Split(name, "."))]

ButLastSegment(name) == Join(SubSeq(Split(name, "."), 1, Len(Split(name, ".")) - 1), Dot)

\* C7: a reference to a type of the current package resolves to the quoted
\* concatenation of the names after the package and adds no import; a
\* reference to a type of any other package resolves to the unquoted
\* module.Symbol and adds exactly the import of that module
C7_ReferenceResolution ==
    (/\ JustCompiled
     /\ Declared.kind = "message"
     /\ Len(Declared.field) = 1
     /\ Declared.field[1].type = 11
     /\ Declared.field[1].label # 3
     /\ Cardinality(ReferencesSoFar) = 1
     /\ output.services = <<>>) =>
        \A fd \in Named(Declared.field[1].type_name) :
            LET target == data[fd[1]]
                got == LastMessage.properties[1].type
            IN IF target.package = output.package
               THEN /\ got = Quote \o FlattenedName(target, fd[2]) \o Quote
                    /\ output.imports = {}
               ELSE /\ ~Contains(got, "\"")
                    /\ Cardinality(output.imports) = 1
                    /\ (target.package # <<>> /\ target.decl[fd[2]].parent = 0) =>
                          /\ got = LastSegment(target.package) \o Dot \o target.decl[fd[2]].name
                          /\ output.imports =
                                 {ImportFrom \o ButLastSegment(target.package) \o ImportWord
                                  \o LastSegment(target.package)}

\* C8: every declaration is yielded with its own path in the schema, so the
\* comment found for it is the leading comment attached to it
C8_YieldedPathIsSchemaPath ==
    JustCompiled =>
        /\ path = SchemaPath(data[item.file].decl, item.decl)
        /\ ~Declared.map_entry =>
              (IF Declared.kind = "message" THEN LastMessage
               ELSE output.enums[Len(output.enums)]).comment
                  = CommentIndent \o DocMark \o LeadingComment(item.decl) \o DocMark

\* the messages compiled so far in the unit, as <<file, declaration>> pairs in
\* the order of their entries in output["messages"]
RECURSIVE UnitMessages(_)
UnitMessages(k) ==
    IF k = 0 THEN <<>>
    ELSE UnitMessages(k - 1)
         \o [j \in 1..Len(CompiledMessages(data[Unit.files[k]])) |->
                <<Unit.files[k], CompiledMessages(data[Unit.files[k]])[j]>>]

\* C9: the input_message of a compiled method is the entry of the very message
\* its input type declares, when that message is of the current package and
\* was compiled in the unit, and is null when no such message was compiled
C9_InputMessageIsDeclaredInput ==
    (pc = "file" /\ si > 0) =>
        \A j \in 1..Len(data[FileIndex].service[si].method) :
            LET method == data[FileIndex].service[si].method[j]
                got == output.services[Len(output.services)].methods[j].input_message
                hits == {k \in 1..Len(UnitMessages(fi)) :
                            /\ UnitMessages(fi)[k] \in Named(method.input_type)
                            /\ data[UnitMessages(fi)[k][1]].package = output.package}
            IN IF hits = {} THEN got = 0 ELSE got \in hits

\* C10: after grouping every file is in exactly one unit, once, and the
\* package of a unit is the declared package of every file of the unit
C10_UnitPackageIsFilePackage ==
    pc # "group" =>
        /\ \A f \in 1..Len(data) :
              Cardinality({ki \in {<<k, i>> : k \in 1..Len(output_map), i \in 1..Len(data)} :
                              /\ ki[2] <= Len(output_map[ki[1]].files)
                              /\ output_map[ki[1]].files[ki[2]] = f}) = 1
        /\ \A k \in 1..Len(output_map) : \A i \in 1..Len(output_map[k].files) :
              output_map[k].package = data[output_map[k].files[i]].package

\* some method of some service of some file declares client streaming
HasClientStreaming ==
    \E f \in 1..Len(data) : \E s \in 1..Len(data[f].service) :
        \E j \in 1..Len(data[f].service[s].method) :
            data[f].service[s].method[j].client_streaming

\* no step of the run is possible: the loop bodies of CompileItem and
\* CompileService only assign, so they can run exactly when their loops go on
Stopped ==
    /\ ~MoreItems
    /\ ~MoreServices
    /\ ~ENABLED GroupFile
    /\ ~ENABLED StartUnit
    /\ ~ENABLED NextFile
    /\ ~ENABLED FinishUnit
    /\ ~ENABLED MakeDirs
    /\ ~ENABLED AddInit
    /\ ~ENABLED WriteResponse

\* C5: when a method declares client streaming nothing is ever written to
\* stdout and the run can only end in failure; a response is written once,
\* after every unit has been compiled and added without a fatal error
C5_ClientStreamingWritesNothing ==
    /\ HasClientStreaming =>
          /\ stdout = <<>>
          /\ pc \notin {"inits", "done"}
          /\ Stopped => pc = "failed"
    /\ Stopped => pc \in {"done", "failed"}
    /\ stdout # <<>> =>
          /\ pc = "done"
          /\ stdout = <<response>>
          /\ u = Len(output_map)
          /\ Len(response) >= Len(output_map)
          /\ \A k \in 1..Len(output_map) :
                response[k].name = Replace(output_map[k].out, ".", Sep) \o PyExt

\* a unit was compiled and added to the response, and then a method declaring
\* client streaming made the run fail
C5_FailedAfterCompiledUnit ==
    /\ HasClientStreaming
    /\ pc = "failed"
    /\ Len(response) >= 1
    /\ stdout = <<>>

====
